---- MODULE Spec2Model ----
(***************************************************************************)
(* Model of the Trick Variable Server Connection C library                 *)
(* (src/src/trick_variable_server_connection.c).                           *)
(*                                                                         *)
(* A C string is modelled as the sequence of its characters before the     *)
(* terminating NUL; one character is a one-character TLA+ string.  The     *)
(* model follows one caller using one socket descriptor: every library     *)
(* function is one action, and the variables record the last call (its     *)
(* arguments, the buffers handed to send(2), what send(2) answered and     *)
(* the value returned) together with the state of the descriptor.          *)
(***************************************************************************)
EXTENDS Integers, Sequences, FiniteSets, TLC

VARIABLES
    pc,      \* "idle": no call in progress; "close": inside close(); "crashed"
    sock,    \* state of the descriptor: "open", "shutdown" or "closed"
    op,      \* name of the library function called last ("none" at start)
    arg,     \* its arguments: [s1, s2: strings, i: int, p: period]
    ret,     \* value it returned (NoRet while it has not returned)
    sent,    \* buffers handed to send(2) during that call, in order
    acc,     \* what send(2) returned for each of them
    depth,   \* number of active frames of close()
    inbox,   \* bytes the server has sent that no recv(2) has taken yet
    peer,    \* the server's end: "up", or "shutdown" after its orderly shutdown
    reply,   \* the caller's reply buffer
    wire,    \* per descriptor, the bytes the server has been delivered
    hist,    \* per descriptor, the calls that have returned, in order
    thr,     \* per caller thread, the call in progress and its position
    cmdbuf,  \* the cmd buffers of the calls in progress, per owner
    demo     \* the demonstration program: position, exit status, output

\* the variables of the caller's last call and of its descriptor
call == <<pc, sock, op, arg, ret, sent, acc, depth>>

\* the variables of the server's end and of the concurrent callers
env == <<inbox, peer, reply, wire, hist, thr, cmdbuf, demo>>

vars == <<pc, sock, op, arg, ret, sent, acc, depth,
          inbox, peer, reply, wire, hist, thr, cmdbuf, demo>>

(***************************************************************************)
(* Bounds of the model.                                                    *)
(***************************************************************************)
\* argument lengths are taken within Slack of the length at which a command
\* just fills the buffer
Slack == 2
\* short writes of 1..MaxShortWrite bytes and of all but the last byte
MaxShortWrite == 2
\* stack frames available to the recursion of close()
MaxDepth == 3
\* size of the caller's reply buffer
MaxReply == 2
\* bytes the server may have in flight towards the caller
MaxInbox == 2
\* calls recorded per descriptor when the server's stream is followed
MaxCalls == 2

\* calls each of two concurrent callers makes
MaxTwoCalls == 1

\* calls of receive the demonstration programs are followed for
MaxReceives == 3

(***************************************************************************)
(* Sizes of the local buffers.                                             *)
(***************************************************************************)
BufSize == 512
SmallBufSize == 256
PerSize == 128
ModSize == 4
LevSize == 64
ValSize == 16

NoRet == 0 - 2

NL == <<"\n">>

(***************************************************************************)
(* Command literals of the source.                                         *)
(***************************************************************************)
set_ascii_command ==
    <<"t", "r", "i", "c", "k", ".", "v", "a", "r", "_", "a", "s", "c", "i", "i", "(", ")">>

set_binary_command ==
    <<"t", "r", "i", "c", "k", ".", "v", "a", "r", "_", "b", "i", "n", "a", "r", "y", "(", ")">>

set_binary_no_names_command ==
    <<"t", "r", "i", "c", "k", ".", "v", "a", "r", "_", "b", "i", "n", "a", "r", "y", "_", "n", "o", "n", "a", "m", "e", "s", "(", ")">>

set_sync_command ==
    <<"t", "r", "i", "c", "k", ".", "v", "a", "r", "_", "s", "y", "n", "c", "(", "1", ")">>

pause_command ==
    <<"t", "r", "i", "c", "k", ".", "v", "a", "r", "_", "p", "a", "u", "s", "e", "(", ")">>

unpause_command ==
    <<"t", "r", "i", "c", "k", ".", "v", "a", "r", "_", "u", "n", "p", "a", "u", "s", "e", "(", ")">>

clear_command ==
    <<"t", "r", "i", "c", "k", ".", "v", "a", "r", "_", "c", "l", "e", "a", "r", "(", ")">>

poll_command ==
    <<"t", "r", "i", "c", "k", ".", "v", "a", "r", "_", "s", "e", "n", "d", "(", ")">>

run_command ==
    <<"t", "r", "i", "c", "k", ".", "e", "x", "e", "c", "_", "r", "u", "n", "(", ")">>

freeze_command ==
    <<"t", "r", "i", "c", "k", ".", "e", "x", "e", "c", "_", "f", "r", "e", "e", "z", "e", "(", ")">>

close_command ==
    <<"t", "r", "i", "c", "k", ".", "v", "a", "r", "_", "e", "x", "i", "t", "(", ")">>

add_variable_prefix ==
    <<"t", "r", "i", "c", "k", ".", "v", "a", "r", "_", "a", "d", "d", "(", "\"">>

add_variable_suffix ==
    <<"\"", ")">>

with_units_infix ==
    <<"\"", ",", " ", "\"">>

remove_variable_prefix ==
    <<"t", "r", "i", "c", "k", ".", "v", "a", "r", "_", "r", "e", "m", "o", "v", "e", "(", "\"">>

set_cycle_prefix ==
    <<"t", "r", "i", "c", "k", ".", "v", "a", "r", "_", "c", "y", "c", "l", "e", "(">>

set_copy_mode_prefix ==
    <<"t", "r", "i", "c", "k", ".", "v", "a", "r", "_", "s", "e", "t", "_", "c", "o", "p", "y", "_", "m", "o", "d", "e", "(">>

validate_prefix ==
    <<"t", "r", "i", "c", "k", ".", "v", "a", "r", "_", "v", "a", "l", "i", "d", "a", "t", "e", "_", "a", "d", "d", "r", "e", "s", "s", "(">>

real_time_prefix ==
    <<"t", "r", "i", "c", "k", ".", "r", "e", "a", "l", "_", "t", "i", "m", "e", "_">>

real_time_suffix ==
    <<"(", ")">>

debug_prefix ==
    <<"t", "r", "i", "c", "k", ".", "v", "a", "r", "_", "d", "e", "b", "u", "g", "(">>

client_tag_prefix ==
    <<"t", "r", "i", "c", "k", ".", "v", "a", "r", "_", "s", "e", "t", "_", "c", "l", "i", "e", "n", "t", "_", "t", "a", "g", "(", "\"">>

paren_suffix ==
    <<")">>

TrueText ==
    <<"T", "r", "u", "e">>

FalseText ==
    <<"F", "a", "l", "s", "e">>

EnableText ==
    <<"e", "n", "a", "b", "l", "e">>

DisableText ==
    <<"d", "i", "s", "a", "b", "l", "e">>

NameTime ==
    <<"t", "i", "m", "e">>

NamePos0 ==
    <<"d", "y", "n", ".", "b", "a", "s", "e", "b", "a", "l", "l", ".", "p", "o", "s", "[", "0", "]">>

NamePos1 ==
    <<"d", "y", "n", ".", "b", "a", "s", "e", "b", "a", "l", "l", ".", "p", "o", "s", "[", "1", "]">>

NamePos2 ==
    <<"d", "y", "n", ".", "b", "a", "s", "e", "b", "a", "l", "l", ".", "p", "o", "s", "[", "2", "]">>

NameG ==
    <<"d", "y", "n", ".", "b", "a", "s", "e", "b", "a", "l", "l", ".", "g">>

UnitsM ==
    <<"m">>

(***************************************************************************)
(* The C library functions the source uses.                                *)
(***************************************************************************)
Strlen(s) == Len(s)

\* the first n characters of s; n is a size_t, so a negative difference
\* wraps to a huge count and takes all of s
TakeN(s, n) == IF n < 0 \/ n >= Len(s) THEN s ELSE SubSeq(s, 1, n)

\* strncpy(dst, src, n): dst holds the first n characters of src, NUL padded
Strncpy(src, n) == TakeN(src, n)

\* strncat(dst, src, n): at most n characters of src appended, then a NUL
Strncat(dst, src, n) == dst \o TakeN(src, n)

\* snprintf(dst, size, fmt, x): the formatted text cut to size-1 characters
Snprintf(text, size) == TakeN(text, size - 1)

DigitChar(d) == <<"0", "1", "2", "3", "4", "5", "6", "7", "8", "9">>[d + 1]

RECURSIVE NatText(_)
NatText(n) == IF n < 10 THEN <<DigitChar(n)>>
              ELSE Append(NatText(n \div 10), DigitChar(n % 10))

\* printf's %i
FormatInt(i) == IF i < 0 THEN <<"-">> \o NatText(0 - i) ELSE NatText(i)

\* six decimals of a count of millionths
Pad6(n) == <<DigitChar((n \div 100000) % 10), DigitChar((n \div 10000) % 10),
             DigitChar((n \div 1000) % 10), DigitChar((n \div 100) % 10),
             DigitChar((n \div 10) % 10), DigitChar(n % 10)>>

\* Large integers are held as sequences of limbs in base 10000, least
\* significant first.  MulLimbs(ls, m, c) is m times the number ls, plus c
\* (m <= 2^16, so that no intermediate value leaves 32 bits).
RECURSIVE MulLimbs(_, _, _)
MulLimbs(ls, m, c) ==
    IF ls = <<>> THEN (IF c = 0 THEN <<>> ELSE <<c>>)
    ELSE <<(m * Head(ls) + c) % 10000>>
            \o MulLimbs(Tail(ls), m, (m * Head(ls) + c) \div 10000)

\* the limbs of 2^k
RECURSIVE Pow2Limbs(_)
Pow2Limbs(k) == IF k <= 13 THEN <<2^k>> ELSE MulLimbs(Pow2Limbs(k - 13), 2^13, 0)

\* the four decimal digits of a limb
Pad4(n) == <<DigitChar((n \div 1000) % 10), DigitChar((n \div 100) % 10),
             DigitChar((n \div 10) % 10), DigitChar(n % 10)>>

\* the decimal text of the number ls, most significant digit first
RECURSIVE LimbsText(_)
LimbsText(ls) == IF Len(ls) = 1 THEN NatText(ls[1])
                 ELSE LimbsText(Tail(ls)) \o Pad4(Head(ls))

\* the exponents k of the periods 2^k the model passes to set_cycle
PeriodExps == {0, 10, 397, 398, 399, 400, 425}

\* the decimal text of 2^k, most significant digit first
Pow2Text == [k \in PeriodExps |-> LimbsText(Pow2Limbs(k))]

\* A double is given either as a count v of millionths (kind "micro") or as
\* the power of two 2^v (kind "pow2"), which a double holds exactly.
\* printf's %lf: the integer part in full, a point and six decimals.
FormatLf(p) ==
    IF p.kind = "pow2" THEN Pow2Text[p.v] \o <<".">> \o Pad6(0)
    ELSE LET a == IF p.v < 0 THEN 0 - p.v ELSE p.v
         IN  (IF p.v < 0 THEN <<"-">> ELSE <<>>)
                 \o NatText(a \div 1000000) \o <<".">> \o Pad6(a % 1000000)

(***************************************************************************)
(* send(2) on the descriptor: -1 on error, else the number of bytes the    *)
(* transport took, which is n or, on a short write, fewer.                 *)
(***************************************************************************)
SendResults(s, n) ==
    IF s # "open" THEN {0 - 1}
    ELSE {0 - 1} \cup {k \in 1..n : k <= MaxShortWrite \/ k >= n - 1}

(***************************************************************************)
(* send_command_to_variable_server                                         *)
(***************************************************************************)
\* the operands of the comparison misplaced: no text near 512 is rejected
send_too_long_misplaced(command) == BufSize + 2 < Strlen(command)

\* room checked for the newline only, not for the NUL
send_too_long_no_nul(command) == BufSize < Strlen(command) + 1

\* the two extra bytes taken off the length instead of added to it
send_too_long_signed(command) == BufSize < Strlen(command) - 2

\* room checked for neither the newline nor the NUL
send_too_long_bare(command) == BufSize < Strlen(command)

\* line 127: the command, the newline and the NUL do not fit in cmd[512]
send_too_long(command) == BufSize < Strlen(command) + 2

\* the newline left out when the command already ends with one
send_buffer_one_newline(command) ==
    LET cmd == Strncpy(command, BufSize)
    IN  IF cmd # <<>> /\ cmd[Len(cmd)] = "\n" THEN cmd
        ELSE Strncat(cmd, NL, BufSize - Strlen(cmd) - 1)

\* cmd kept from the call before (a static buffer) and appended to
send_buffer_appends(command) ==
    LET old == IF sent = <<>> THEN <<>> ELSE sent[Len(sent)]
        cmd == Strncat(old, command, BufSize - Strlen(old) - 1)
    IN  Strncat(cmd, NL, BufSize - Strlen(cmd) - 1)

\* lines 131-132: cmd after strncpy and strncat of the newline
send_buffer(command) ==
    LET cmd == Strncpy(command, BufSize)
    IN  Strncat(cmd, NL, BufSize - Strlen(cmd) - 1)

\* the result of send reduced to 0 or -1, as the wrappers do
raw_return_status(r) == IF r < 0 THEN 0 - 1 ELSE 0

\* line 133: "return send(socket, cmd, strlen(cmd), 0);"
raw_return(r) == r

\* the wrappers' "if (send_command_to_variable_server(...) < 0) return -1;
\* else return 0;"
wrapper_return(r) == IF r < 0 THEN 0 - 1 ELSE 0

\* One call of send_command_to_variable_server(socket, command), made by the
\* caller itself (wrapped = FALSE) or by a wrapper (wrapped = TRUE).
SendCommand(command, wrapped) ==
    IF send_too_long(command)
    THEN /\ sent' = <<>>
         /\ acc' = <<>>
         /\ ret' = 0 - 1
    ELSE \E r \in SendResults(sock, Strlen(send_buffer(command))) :
            /\ sent' = <<send_buffer(command)>>
            /\ acc' = <<r>>
            /\ ret' = IF wrapped THEN wrapper_return(r) ELSE raw_return(r)

\* a wrapper's own length check failed: return -1 without calling send
Reject ==
    /\ sent' = <<>>
    /\ acc' = <<>>
    /\ ret' = 0 - 1

(***************************************************************************)
(* Command builders: strncpy of the first part, strncat of the others.     *)
(***************************************************************************)
RECURSIVE SumLen(_)
SumLen(parts) == IF parts = <<>> THEN 0
                 ELSE Strlen(Head(parts)) + SumLen(Tail(parts))

\* "if (sizeof(cmd) < (strlen(prefix) + ... + strlen(suffix) + 1))"
build_too_long(size, parts) == size < SumLen(parts) + 1

RECURSIVE Concat(_, _, _)
Concat(cmd, parts, size) ==
    IF parts = <<>> THEN cmd
    ELSE Concat(Strncat(cmd, Head(parts), size - Strlen(cmd) - 1), Tail(parts), size)

build_command(size, parts) == Concat(Strncpy(Head(parts), size), Tail(parts), size)

NoArg == [s1 |-> <<>>, s2 |-> <<>>, i |-> 0, p |-> [kind |-> "micro", v |-> 0]]

\* the body of function o, which sends the fixed text command
Fixed(o, command) ==
    /\ op' = o
    /\ arg' = NoArg
    /\ SendCommand(command, TRUE)
    /\ UNCHANGED <<pc, sock, depth>>

\* the body of function o called with arguments a, which assembles parts in
\* cmd[size]
Built(o, a, size, parts) ==
    /\ op' = o
    /\ arg' = a
    /\ IF build_too_long(size, parts) THEN Reject
       ELSE SendCommand(build_command(size, parts), TRUE)
    /\ UNCHANGED <<pc, sock, depth>>

(***************************************************************************)
(* Arguments the caller passes.                                            *)
(***************************************************************************)
Fill(n) == [i \in 1..n |-> "x"]

\* the longest argument with which overhead + argument + 1 is at most BufSize
Fit(overhead) == BufSize - 1 - overhead

\* short arguments, and arguments around the length that fills the buffer
Args(overhead) ==
    {<<>>, NameTime, NamePos0}
        \cup {Fill(n) : n \in (Fit(overhead) - Slack - 1)..(Fit(overhead) + Slack)}

Texts ==
    {<<>>, NL, <<"a">>, <<"a", "\n">>, Fill(BufSize - 3) \o NL}
        \cup {Fill(n) : n \in (BufSize - 2 - Slack)..(BufSize + Slack)}

Units == {<<>>, UnitsM}

Ints == {0 - 2147483647, 0 - 100, 0 - 99, 0 - 1, 0, 1, 2, 10, 999, 1000, 2147483647}

Flags == {0 - 1, 0, 1, 2}

Periods ==
    {[kind |-> "micro", v |-> m] : m \in {0, 100000, 500000, 0 - 500000, 12345678}}
        \cup {[kind |-> "pow2", v |-> k] : k \in PeriodExps}

(***************************************************************************)
(* The library functions, one action each.                                 *)
(***************************************************************************)
send_command_to_variable_server ==
    \E text \in Texts :
        /\ pc = "idle"
        /\ op' = "send_command_to_variable_server"
        /\ arg' = [NoArg EXCEPT !.s1 = text]
        /\ SendCommand(text, FALSE)
        /\ UNCHANGED <<pc, sock, depth>>
        /\ UNCHANGED env

set_ascii ==
    /\ pc = "idle"
    /\ Fixed("set_ascii", set_ascii_command)
    /\ UNCHANGED env

set_binary ==
    /\ pc = "idle"
    /\ Fixed("set_binary", set_binary_command)
    /\ UNCHANGED env

set_binary_no_names ==
    /\ pc = "idle"
    /\ Fixed("set_binary_no_names", set_binary_no_names_command)
    /\ UNCHANGED env

set_sync ==
    /\ pc = "idle"
    /\ Fixed("set_sync", set_sync_command)
    /\ UNCHANGED env

pause ==
    /\ pc = "idle"
    /\ Fixed("pause", pause_command)
    /\ UNCHANGED env

unpause ==
    /\ pc = "idle"
    /\ Fixed("unpause", unpause_command)
    /\ UNCHANGED env

clear ==
    /\ pc = "idle"
    /\ Fixed("clear", clear_command)
    /\ UNCHANGED env

poll ==
    /\ pc = "idle"
    /\ Fixed("poll", poll_command)
    /\ UNCHANGED env

run ==
    /\ pc = "idle"
    /\ Fixed("run", run_command)
    /\ UNCHANGED env

freeze ==
    /\ pc = "idle"
    /\ Fixed("freeze", freeze_command)
    /\ UNCHANGED env

add_variable_to_server ==
    \E name \in Args(Strlen(add_variable_prefix) + Strlen(add_variable_suffix)) :
        /\ pc = "idle"
        /\ Built("add_variable_to_server", [NoArg EXCEPT !.s1 = name], BufSize,
              <<add_variable_prefix, name, add_variable_suffix>>)
        /\ UNCHANGED env

add_variable_to_sever_with_units ==
    \E units \in Units :
        \E name \in Args(Strlen(add_variable_prefix) + Strlen(with_units_infix)
                            + Strlen(units) + Strlen(add_variable_suffix)) :
            /\ pc = "idle"
            /\ Built("add_variable_to_sever_with_units",
                  [NoArg EXCEPT !.s1 = name, !.s2 = units], BufSize,
                  <<add_variable_prefix, name, with_units_infix, units,
                    add_variable_suffix>>)
            /\ UNCHANGED env

remove_variable_from_server ==
    \E name \in Args(Strlen(remove_variable_prefix) + Strlen(add_variable_suffix)) :
        /\ pc = "idle"
        /\ Built("remove_variable_from_server", [NoArg EXCEPT !.s1 = name], BufSize,
              <<remove_variable_prefix, name, add_variable_suffix>>)
        /\ UNCHANGED env

\* line 418: snprintf(per, 128, "%lf", period)
set_cycle_per(period) == Snprintf(FormatLf(period), PerSize)

set_cycle ==
    \E period \in Periods :
        /\ pc = "idle"
        /\ Built("set_cycle", [NoArg EXCEPT !.p = period], BufSize,
              <<set_cycle_prefix, set_cycle_per(period), paren_suffix>>)
        /\ UNCHANGED env

\* line 458: snprintf(mod, 4, "%i", mode)
set_copy_mode_mod(mode) == Snprintf(FormatInt(mode), ModSize)

set_copy_mode ==
    \E mode \in Ints :
        /\ pc = "idle"
        /\ Built("set_copy_mode", [NoArg EXCEPT !.i = mode], BufSize,
              <<set_copy_mode_prefix, set_copy_mode_mod(mode), paren_suffix>>)
        /\ UNCHANGED env

\* every nonzero value taken as true, as C's truth test would
set_validate_addresses_nonzero(validate) ==
    IF validate # 0 THEN Strncpy(TrueText, ValSize) ELSE Strncpy(FalseText, ValSize)

\* line 582: if (validate>0) "True" else "False", copied into val[16]
set_validate_addresses_val(validate) ==
    IF validate > 0 THEN Strncpy(TrueText, ValSize) ELSE Strncpy(FalseText, ValSize)

set_validate_addresses ==
    \E validate \in Flags :
        /\ pc = "idle"
        /\ Built("set_validate_addresses", [NoArg EXCEPT !.i = validate], SmallBufSize,
              <<validate_prefix, set_validate_addresses_val(validate), paren_suffix>>)
        /\ UNCHANGED env

\* line 621: if (enabled>0) "enable" else "disable", copied into enab[16]
set_real_time_enab(enabled) ==
    IF enabled > 0 THEN Strncpy(EnableText, ValSize) ELSE Strncpy(DisableText, ValSize)

set_real_time ==
    \E enabled \in Flags :
        /\ pc = "idle"
        /\ Built("set_real_time", [NoArg EXCEPT !.i = enabled], SmallBufSize,
              <<real_time_prefix, set_real_time_enab(enabled), real_time_suffix>>)
        /\ UNCHANGED env

\* line 660: snprintf(lev, 64, "%i", level)
set_debug_level_lev(level) == Snprintf(FormatInt(level), LevSize)

set_debug_level ==
    \E level \in Ints :
        /\ pc = "idle"
        /\ Built("set_debug_level", [NoArg EXCEPT !.i = level], SmallBufSize,
              <<debug_prefix, set_debug_level_lev(level), paren_suffix>>)
        /\ UNCHANGED env

set_client_tag ==
    \E tag \in Args(Strlen(client_tag_prefix) + Strlen(add_variable_suffix)) :
        /\ pc = "idle"
        /\ Built("set_client_tag", [NoArg EXCEPT !.s1 = tag], BufSize,
              <<client_tag_prefix, tag, add_variable_suffix>>)
        /\ UNCHANGED env

(***************************************************************************)
(* close.  The call "close(socket)" on line 557 is a call of this very     *)
(* function (the library defines the symbol close), so every frame whose   *)
(* send succeeded opens another frame; close(2) itself is never reached.   *)
(***************************************************************************)
\* One frame of close: line 553, then line 554 or lines 557-558.  In the
\* caller's own frame (first) a failed send makes close return -1; in a
\* nested frame the -1 is discarded on line 557 and every frame returns 0.
close_frame(first) ==
    \E r \in SendResults(sock, Strlen(send_buffer(close_command))) :
        /\ sent' = (IF first THEN <<>> ELSE sent) \o <<send_buffer(close_command)>>
        /\ acc' = (IF first THEN <<>> ELSE acc) \o <<r>>
        /\ IF r < 0
           THEN /\ ret' = (IF first THEN 0 - 1 ELSE 0)
                /\ pc' = "idle"
                /\ depth' = 0
           ELSE /\ ret' = NoRet
                /\ pc' = "close"
                /\ depth' = (IF first THEN 1 ELSE depth + 1)

\* the caller's call: line 553 in the outermost frame
close ==
    /\ pc = "idle"
    /\ op' = "close"
    /\ arg' = NoArg
    /\ close_frame(TRUE)
    /\ UNCHANGED sock
    /\ UNCHANGED env

\* line 557 in the innermost frame: the nested call sends the exit command
\* again; when that send fails the nested call returns -1, which line 557
\* discards, and every frame returns 0 on line 558
close_nested ==
    /\ pc = "close"
    /\ depth < MaxDepth
    /\ close_frame(FALSE)
    /\ UNCHANGED <<sock, op, arg>>
    /\ UNCHANGED env

\* no frame is left for the next nested call: the process is killed
close_overflow ==
    /\ pc = "close"
    /\ depth = MaxDepth
    /\ pc' = "crashed"
    /\ UNCHANGED <<sock, op, arg, ret, sent, acc, depth>>
    /\ UNCHANGED env

(***************************************************************************)
(* socket_shutdown: shutdown(socket, SHUT_RDWR)                            *)
(***************************************************************************)
\* the exit command sent first, as close does
shutdown_sends_exit ==
    /\ op' = "socket_shutdown"
    /\ arg' = NoArg
    /\ \E r \in SendResults(sock, Strlen(send_buffer(close_command))) :
          /\ sent' = <<send_buffer(close_command)>>
          /\ acc' = <<r>>
    /\ \/ sock = "open" /\ sock' = "shutdown" /\ ret' = 0
       \/ sock' = sock /\ ret' = 0 - 1

\* line 756: nothing is sent; shutdown(2) answers 0 and both directions are
\* disabled, or it answers -1
shutdown_call ==
    /\ op' = "socket_shutdown"
    /\ arg' = NoArg
    /\ sent' = <<>>
    /\ acc' = <<>>
    /\ \/ sock = "open" /\ sock' = "shutdown" /\ ret' = 0
       \/ sock' = sock /\ ret' = 0 - 1

socket_shutdown ==
    /\ pc = "idle"
    /\ shutdown_call
    /\ UNCHANGED <<pc, depth>>
    /\ UNCHANGED env

(***************************************************************************)
(* receive_message_from_variable_server: recv(socket, server_reply,        *)
(* lenght, flags), with flags 0 on a blocking stream socket.               *)
(***************************************************************************)
\* the bytes a server sends
Bytes == {"a", "b"}

\* the content of a buffer position nothing has been stored in
Unset == "?"

\* the length handed to recv one too large
recv_length_past_end(lenght) == lenght + 1

\* line 740: the third argument of recv
recv_length(lenght) == lenght

\* the length asked for returned in place of the count received
recv_return_length(r, lenght) == IF r > 0 THEN lenght ELSE r

\* line 740: "return recv(...)"
recv_return(r, lenght) == r

\* recv(2) asked for n bytes: -1 on error; with data pending, the number of
\* bytes taken, between 1 and n (0 when n is 0); with no data pending, 0 once
\* the peer or the caller has shut the connection down, and otherwise the
\* call blocks (it can only be interrupted, which is an error)
RecvResults(s, p, q, n) ==
    {0 - 1}
        \cup (IF q # <<>> THEN {k \in 0..Len(q) : k <= n /\ (k = 0) = (n = 0)}
              ELSE IF p = "shutdown" \/ s = "shutdown" THEN {0}
              ELSE {})

\* the bytes recv stored: the first r pending bytes, at the start of the buffer
Stored(buf, q, r) ==
    [i \in DOMAIN buf |-> IF i <= r /\ i <= Len(q) THEN q[i] ELSE buf[i]]

\* line 740 called with the buffer reply and the length lenght
receive_call(lenght) ==
    /\ op' = "receive_message_from_variable_server"
    /\ arg' = [NoArg EXCEPT !.i = lenght]
    /\ sent' = <<>>
    /\ acc' = <<>>
    /\ \E r \in RecvResults(sock, peer, inbox, recv_length(lenght)) :
          /\ ret' = recv_return(r, lenght)
          /\ reply' = IF r > 0 THEN Stored(reply, inbox, r) ELSE reply
          /\ inbox' = IF r > 0 THEN SubSeq(inbox, r + 1, Len(inbox)) ELSE inbox

receive_message_from_variable_server ==
    \E lenght \in 0..MaxReply :
        /\ pc = "idle"
        /\ receive_call(lenght)
        /\ UNCHANGED <<pc, sock, depth, peer, wire, hist, thr, cmdbuf, demo>>

\* the server sends one more byte
server_sends ==
    \E b \in Bytes :
        /\ peer = "up"
        /\ Len(inbox) < MaxInbox
        /\ inbox' = Append(inbox, b)
        /\ UNCHANGED <<call, peer, reply, wire, hist, thr, cmdbuf, demo>>

\* the server shuts its end down
server_shutdown ==
    /\ peer = "up"
    /\ peer' = "shutdown"
    /\ UNCHANGED <<call, inbox, reply, wire, hist, thr, cmdbuf, demo>>

Handles == {1, 2}

Threads == {1, 2}

NoCall == [pc |-> "idle", op |-> "none", arg |-> NoArg]

\* the arrays of one caller: w is the cmd of a builder (e.g. line 279), s the
\* cmd of send_command_to_variable_server (line 125)
NoBufs == [w |-> <<>>, s |-> <<>>]

\* the demonstration program before main has run
NoDemo == [prog |-> 0, pc |-> "start", step |-> 0, status |-> NoRet,
           log |-> <<>>, printed |-> <<>>]

Init ==
    /\ pc = "idle"
    /\ sock = "open"
    /\ op = "none"
    /\ arg = NoArg
    /\ ret = NoRet
    /\ sent = <<>>
    /\ acc = <<>>
    /\ depth = 0
    /\ inbox = <<>>
    /\ peer = "up"
    /\ reply = [i \in 1..MaxReply |-> Unset]
    /\ wire = [h \in Handles |-> <<>>]
    /\ hist = [h \in Handles |-> <<>>]
    /\ thr = [t \in Threads |-> NoCall]
    /\ cmdbuf = [t \in Threads |-> NoBufs]
    /\ demo = NoDemo

Next ==
    \/ send_command_to_variable_server
    \/ set_ascii
    \/ set_binary
    \/ set_binary_no_names
    \/ set_sync
    \/ pause
    \/ unpause
    \/ add_variable_to_server
    \/ add_variable_to_sever_with_units
    \/ remove_variable_from_server
    \/ clear
    \/ set_cycle
    \/ set_copy_mode
    \/ poll
    \/ run
    \/ freeze
    \/ close
    \/ set_validate_addresses
    \/ set_real_time
    \/ set_debug_level
    \/ set_client_tag
    \/ close_nested
    \/ close_overflow
    \/ socket_shutdown

Spec == Init /\ [][Next]_vars

(***************************************************************************)
(* One caller issuing calls one after the other on descriptor 1, with the  *)
(* bytes the transport took delivered to the server in order.              *)
(***************************************************************************)
StreamCalls ==
    {[op |-> "send_command_to_variable_server", arg |-> [NoArg EXCEPT !.s1 = t]] :
        t \in {<<"a">>, Fill(BufSize - 1)}}
      \cup {[op |-> "add_variable_to_server", arg |-> [NoArg EXCEPT !.s1 = n]] :
        n \in {NameTime, Fill(Fit(Strlen(add_variable_prefix)
                                     + Strlen(add_variable_suffix)) + 1)}}
      \cup {[op |-> o, arg |-> NoArg] : o \in {"clear", "poll", "close", "socket_shutdown"}}

\* the caller calls function c.op with the arguments c.arg
Perform(c) ==
    \/ /\ c.op = "send_command_to_variable_server"
       /\ op' = c.op
       /\ arg' = c.arg
       /\ SendCommand(c.arg.s1, FALSE)
       /\ UNCHANGED <<pc, sock, depth>>
    \/ /\ c.op = "add_variable_to_server"
       /\ Built(c.op, c.arg, BufSize,
                <<add_variable_prefix, c.arg.s1, add_variable_suffix>>)
    \/ /\ c.op = "set_cycle"
       /\ Built(c.op, c.arg, BufSize,
                <<set_cycle_prefix, set_cycle_per(c.arg.p), paren_suffix>>)
    \/ /\ c.op = "set_copy_mode"
       /\ Built(c.op, c.arg, BufSize,
                <<set_copy_mode_prefix, set_copy_mode_mod(c.arg.i), paren_suffix>>)
    \/ /\ c.op = "clear"
       /\ Fixed(c.op, clear_command)
    \/ /\ c.op = "poll"
       /\ Fixed(c.op, poll_command)
    \/ /\ c.op = "close"
       /\ op' = c.op
       /\ arg' = c.arg
       /\ close_frame(TRUE)
       /\ UNCHANGED sock
    \/ /\ c.op = "socket_shutdown"
       /\ shutdown_call
       /\ UNCHANGED <<pc, depth>>

\* the first r bytes of buf, which send(2) took when it answered r
Taken(buf, r) == IF r > 0 THEN SubSeq(buf, 1, r) ELSE <<>>

\* the bytes taken by the last send of a call
LastTaken(s, a) == IF s = <<>> THEN <<>> ELSE Taken(s[Len(s)], a[Len(a)])

\* the stream transport delivers what the step's send gave it, in order
Deliver(h, s, a) == wire' = [wire EXCEPT ![h] = @ \o LastTaken(s, a)]

\* a call that has returned is entered in the history of its descriptor
Record(h) ==
    IF pc' = "idle"
    THEN hist' = [hist EXCEPT ![h] =
                    Append(@, [op |-> op', arg |-> arg', ret |-> ret',
                               sent |-> sent', acc |-> acc'])]
    ELSE UNCHANGED hist

stream_call ==
    \E c \in StreamCalls :
        /\ pc = "idle"
        /\ Len(hist[1]) < MaxCalls
        /\ Perform(c)
        /\ Deliver(1, sent', acc')
        /\ Record(1)
        /\ UNCHANGED <<inbox, peer, reply, thr, cmdbuf, demo>>

stream_close_nested ==
    /\ pc = "close"
    /\ depth < MaxDepth
    /\ close_frame(FALSE)
    /\ UNCHANGED <<sock, op, arg, inbox, peer, reply, thr, cmdbuf, demo>>
    /\ Deliver(1, sent', acc')
    /\ Record(1)

stream_close_overflow ==
    /\ pc = "close"
    /\ depth = MaxDepth
    /\ pc' = "crashed"
    /\ UNCHANGED <<sock, op, arg, ret, sent, acc, depth>>
    /\ UNCHANGED env

StreamNext ==
    \/ stream_call
    \/ stream_close_nested
    \/ stream_close_overflow

SpecStream == Init /\ [][StreamNext]_vars

(***************************************************************************)
(* The caller receiving while the server sends and shuts down.             *)
(***************************************************************************)
RecvNext ==
    \/ receive_message_from_variable_server
    \/ server_sends
    \/ server_shutdown
    \/ socket_shutdown

SpecRecv == Init /\ [][RecvNext]_vars

(***************************************************************************)
(* The documented command lines (header comments and the command table):   *)
(* the template of each function with its arguments written out in full.   *)
(***************************************************************************)
CommandOps ==
    {"send_command_to_variable_server", "set_ascii", "set_binary",
     "set_binary_no_names", "set_sync", "pause", "unpause",
     "add_variable_to_server", "add_variable_to_sever_with_units",
     "remove_variable_from_server", "clear", "set_cycle", "set_copy_mode",
     "poll", "run", "freeze", "close", "set_validate_addresses",
     "set_real_time", "set_debug_level", "set_client_tag"}

Template(o, a) ==
    CASE o = "send_command_to_variable_server" -> a.s1
      [] o = "set_ascii" -> set_ascii_command
      [] o = "set_binary" -> set_binary_command
      [] o = "set_binary_no_names" -> set_binary_no_names_command
      [] o = "set_sync" -> set_sync_command
      [] o = "pause" -> pause_command
      [] o = "unpause" -> unpause_command
      [] o = "add_variable_to_server" ->
            add_variable_prefix \o a.s1 \o add_variable_suffix
      [] o = "add_variable_to_sever_with_units" ->
            add_variable_prefix \o a.s1 \o with_units_infix \o a.s2
                \o add_variable_suffix
      [] o = "remove_variable_from_server" ->
            remove_variable_prefix \o a.s1 \o add_variable_suffix
      [] o = "clear" -> clear_command
      [] o = "set_cycle" -> set_cycle_prefix \o FormatLf(a.p) \o paren_suffix
      [] o = "set_copy_mode" -> set_copy_mode_prefix \o FormatInt(a.i) \o paren_suffix
      [] o = "poll" -> poll_command
      [] o = "run" -> run_command
      [] o = "freeze" -> freeze_command
      [] o = "close" -> close_command
      [] o = "set_validate_addresses" ->
            validate_prefix \o (IF a.i > 0 THEN TrueText ELSE FalseText) \o paren_suffix
      [] o = "set_real_time" ->
            real_time_prefix \o (IF a.i > 0 THEN EnableText ELSE DisableText)
                \o real_time_suffix
      [] o = "set_debug_level" -> debug_prefix \o FormatInt(a.i) \o paren_suffix
      [] o = "set_client_tag" -> client_tag_prefix \o a.s1 \o add_variable_suffix

\* a call of a command operation has returned
Returned == pc = "idle" /\ op \in CommandOps

RawReturned == pc = "idle" /\ op = "send_command_to_variable_server"

(***************************************************************************)
(* Claims                                                                  *)
(***************************************************************************)

\* C1: when close(connection) has returned, the underlying connection has
\* been torn down (the descriptor is closed), whether or not the send of the
\* exit command succeeded, and the value returned is -1 exactly when that
\* send failed and 0 otherwise.
C1_CloseTearsDown ==
    (pc = "idle" /\ op = "close") =>
        /\ sock = "closed"
        /\ (ret = 0 - 1) = (acc[1] < 0)
        /\ (ret = 0) = (acc[1] >= 0)

\* C2: every call of a command operation performs at most one transport
\* write, none when it returned after a failed length check, and one call of
\* close puts exactly one exit command line on the wire.
C2_OneWritePerCall ==
    op \in CommandOps =>
        /\ Len(sent) <= 1
        /\ (op = "close" => sent = <<close_command \o NL>>)

\* C3: whenever the documented command line of a call, with its newline, is
\* longer than the 512-byte maximum, the call returns -1 and nothing is
\* handed to the transport.
C3_OversizedRejected ==
    (Returned /\ Len(Template(op, arg)) + 1 > BufSize) =>
        (ret = 0 - 1 /\ sent = <<>> /\ acc = <<>>)

C3_Witness ==
    /\ Returned
    /\ op = "add_variable_to_server"
    /\ Len(Template(op, arg)) + 1 = BufSize + 1
    /\ ret = 0 - 1
    /\ sent = <<>>

\* C4 as stated: raw-send rejects a text exactly when its length plus 1
\* exceeds 512, so texts of length 0..511 are handed to the transport and
\* texts of length 512 or more are not.
C4_Original ==
    RawReturned => ((sent = <<>>) = (Len(arg.s1) + 1 > BufSize))

\* C4 amended: raw-send rejects a text exactly when its length plus 2 (the
\* newline and the terminating NUL) exceeds 512: texts of length 0..510 are
\* handed to the transport, texts of length 511 or more are rejected with -1.
C4_Amended ==
    RawReturned =>
        /\ (sent = <<>>) = (Len(arg.s1) + 2 > BufSize)
        /\ (sent = <<>> => ret = 0 - 1)
        /\ (sent # <<>> => Len(sent) = 1 /\ Len(sent[1]) = Len(arg.s1) + 1)

C4_Witness ==
    /\ RawReturned
    /\ Len(arg.s1) = BufSize - 2
    /\ Len(sent) = 1
    /\ ret = BufSize - 1

\* C5: add-variable, add-variable-with-units, remove-variable and
\* set-client-tag are rejected exactly when prefix + argument(s) + suffix +
\* the newline exceeds 512; when the sum is at most 512 the command is
\* handed to the transport in full (add-variable accepts names up to 494).
C5_BuilderLengthCheck ==
    (pc = "idle" /\ op \in {"add_variable_to_server", "add_variable_to_sever_with_units",
                            "remove_variable_from_server", "set_client_tag"}) =>
        IF Len(Template(op, arg)) + 1 > BufSize
        THEN ret = 0 - 1 /\ sent = <<>>
        ELSE sent = <<Template(op, arg) \o NL>>

\* C6 as stated: raw-send returns -1 whenever the transport write failed or
\* was short, and otherwise returns the length of text plus 1.
C6_Original ==
    (RawReturned /\ sent # <<>>) =>
        IF acc[1] < Len(sent[1]) THEN ret = 0 - 1 ELSE ret = Len(arg.s1) + 1

\* C6 amended: raw-send returns -1 whenever the transport write failed;
\* otherwise it returns the number of bytes the transport took, which is the
\* length of text plus 1 on a complete write and the smaller positive count
\* on a short write (a short write is not reported as a failure).
C6_Amended ==
    (RawReturned /\ sent # <<>>) =>
        /\ (acc[1] < 0 => ret = 0 - 1)
        /\ (acc[1] >= 0 => ret = acc[1] /\ ret <= Len(arg.s1) + 1)
        /\ (acc[1] = Len(sent[1]) => ret = Len(arg.s1) + 1)

\* a short write that raw-send reports as its (positive) count
C6_Witness ==
    /\ RawReturned
    /\ Len(sent) = 1
    /\ acc[1] > 0
    /\ acc[1] < Len(sent[1])
    /\ ret = acc[1]

\* C7: for every accepted text the buffer raw-send hands to the transport is
\* the text followed by exactly one newline, appended unconditionally; a
\* text that already ends with a newline goes out ending with two.
C7_NewlineAppendedOnce ==
    (RawReturned /\ sent # <<>>) =>
        /\ sent = <<arg.s1 \o NL>>
        /\ (arg.s1 # <<>> /\ arg.s1[Len(arg.s1)] = "\n") =>
                SubSeq(sent[1], Len(sent[1]) - 1, Len(sent[1])) = <<"\n", "\n">>

C7_Witness ==
    /\ RawReturned
    /\ arg.s1 = <<"a", "\n">>
    /\ sent = <<(<<"a", "\n", "\n">>)>>
    /\ acc = <<3>>

\* C8: for every command operation and every accepted argument, the buffer
\* handed to the transport is the documented template with the arguments
\* substituted verbatim, followed by exactly one newline.
C8_TemplateWritten ==
    (Returned /\ sent # <<>>) => sent = <<Template(op, arg) \o NL>>

\* C9: for every int mode, set-copy-mode writes
\* trick.var_set_copy_mode(<complete decimal text of mode>) and a newline.
C9_CopyModeDecimal ==
    (pc = "idle" /\ op = "set_copy_mode") =>
        sent = <<set_copy_mode_prefix \o FormatInt(arg.i) \o paren_suffix \o NL>>

\* C10: set_cycle never sends a truncated period: either the line handed to
\* the transport holds the complete formatted text of the period inside
\* trick.var_cycle(...), or the call fails and writes nothing.
C10_CycleNotTruncated ==
    (pc = "idle" /\ op = "set_cycle") =>
        \/ ret = 0 - 1 /\ sent = <<>>
        \/ sent = <<set_cycle_prefix \o FormatLf(arg.p) \o paren_suffix \o NL>>

RecvOp == "receive_message_from_variable_server"

\* a step in which receive is called and returns (the server's steps leave
\* op alone or let inbox grow or peer change)
RecvStep ==
    /\ pc = "idle"
    /\ op' = RecvOp
    /\ peer' = peer
    /\ sock' = sock
    /\ Len(inbox') <= Len(inbox)

\* C11 as stated: receive returns a count that never exceeds n, and returns
\* 0 exactly when the peer has performed an orderly shutdown, for every n,
\* n = 0 included.
C11_Original ==
    [][RecvStep => /\ ret' <= arg'.i
                   /\ (ret' = 0) => (peer = "shutdown")
                   /\ (peer = "shutdown" /\ inbox = <<>>) => ret' \in {0, 0 - 1}]_vars

\* C11 amended: receive performs a single recv and returns a count that
\* never exceeds n.  For n >= 1 on a connection the caller has not shut down
\* it returns 0 exactly when no data is pending and the peer has performed an
\* orderly shutdown, the positive count of bytes actually stored when data is
\* pending, and -1 on error; for n = 0 it stores nothing and returns 0 also
\* while the peer is still connected.
C11_Amended ==
    [][RecvStep =>
          /\ ret' <= arg'.i
          /\ ret' >= 0 - 1
          /\ (arg'.i >= 1 /\ sock = "open") =>
                /\ (ret' = 0) => (inbox = <<>> /\ peer = "shutdown")
                /\ (inbox = <<>> /\ peer = "shutdown") => ret' \in {0, 0 - 1}
          /\ ret' > 0 =>
                /\ ret' <= Len(inbox)
                /\ inbox' = SubSeq(inbox, ret' + 1, Len(inbox))
                /\ \A i \in 1..MaxReply :
                      reply'[i] = IF i <= ret' THEN inbox[i] ELSE reply[i]
          /\ ret' <= 0 => (reply' = reply /\ inbox' = inbox)]_vars

\* receive returned 0 for n >= 1 after the server's shutdown, having taken
\* the pending bytes in an earlier call
C11_Witness ==
    /\ pc = "idle"
    /\ op = RecvOp
    /\ arg.i >= 1
    /\ ret = 0
    /\ sock = "open"
    /\ peer = "shutdown"
    /\ inbox = <<>>
    /\ reply[1] \in Bytes

(***************************************************************************)
(* Claims about sequences of calls (SpecStream)                            *)
(***************************************************************************)
\* the calls that have returned on descriptor 1
H1 == hist[1]

\* a step in which a call on descriptor 1 returns; Last is its record
Returns == Len(hist'[1]) = Len(hist[1]) + 1

Last == hist'[1][Len(hist'[1])]

\* the whole command line of a recorded call
Line(e) == Template(e.op, e.arg) \o NL

\* the call reported success: 0 from a wrapper, the full count from raw-send
Succeeded(e) ==
    /\ e.op \in CommandOps
    /\ IF e.op = "send_command_to_variable_server"
       THEN e.ret = Len(Line(e)) ELSE e.ret = 0

RECURSIVE SuccessLines(_)
SuccessLines(h) ==
    IF h = <<>> THEN <<>>
    ELSE (IF Succeeded(Head(h)) THEN Line(Head(h)) ELSE <<>>) \o SuccessLines(Tail(h))

\* C12: after any sequence of calls issued one after the other on one
\* connection, the bytes delivered to the server are the concatenation, in
\* issue order, of the complete command lines of the calls that reported
\* success.
C12_StreamOfSuccessfulLines ==
    pc = "idle" => wire[1] = SuccessLines(H1)

\* the bytes the transport took from the sends of the recorded calls
RECURSIVE TakenAll(_, _)
TakenAll(s, a) ==
    IF s = <<>> THEN <<>> ELSE Taken(Head(s), Head(a)) \o TakenAll(Tail(s), Tail(a))

RECURSIVE WireOf(_)
WireOf(h) ==
    IF h = <<>> THEN <<>> ELSE TakenAll(Head(h).sent, Head(h).acc) \o WireOf(Tail(h))

\* C14: socket_shutdown sends no command and does not release the handle:
\* after it succeeded the descriptor stays shut down (never closed), every
\* later command operation returns -1 and nothing more reaches the server.
C14_ShutdownKeepsHandle ==
    [][/\ (Returns /\ Last.op = "socket_shutdown") =>
              /\ Last.sent = <<>>
              /\ wire' = wire
              /\ (Last.ret = 0) => (sock' = "shutdown")
       /\ (sock = "shutdown") =>
              /\ sock' = "shutdown"
              /\ wire' = wire
              /\ (Returns /\ Last.op \in CommandOps) => Last.ret = 0 - 1]_vars

\* after a successful shutdown a command was tried: its send failed, it
\* returned -1 and the server got nothing
C14_Witness ==
    /\ pc = "idle"
    /\ sock = "shutdown"
    /\ Len(H1) = 2
    /\ H1[1].op = "socket_shutdown"
    /\ H1[1].ret = 0
    /\ H1[2].op = "clear"
    /\ H1[2].acc = <<0 - 1>>
    /\ H1[2].ret = 0 - 1
    /\ wire[1] = <<>>

\* the code rejects the call for its length: the command, its newline and
\* the NUL do not fit in 512 bytes
TooLong(e) == e.op \in CommandOps /\ Len(Line(e)) + 1 > BufSize

NotTooLong(e) == ~TooLong(e)

\* C15: a call rejected for its length returns -1 without any I/O and leaves
\* the connection and the server's stream as they were; the calls around it
\* are delivered exactly as if the rejected call had not been made.
C15_RejectionIsLocal ==
    /\ [](pc = "idle" =>
            /\ \A i \in DOMAIN H1 :
                  TooLong(H1[i]) =>
                      (H1[i].ret = 0 - 1 /\ H1[i].sent = <<>> /\ H1[i].acc = <<>>)
            /\ wire[1] = WireOf(SelectSeq(H1, NotTooLong)))
    /\ [][(Returns /\ TooLong(Last)) =>
              (wire' = wire /\ sock' = sock /\ inbox' = inbox /\ peer' = peer)]_vars

\* an over-long add-variable was rejected and the same call with a short
\* name then went through in full
C15_Witness ==
    /\ pc = "idle"
    /\ Len(H1) = 2
    /\ H1[1].op = "add_variable_to_server"
    /\ TooLong(H1[1])
    /\ H1[1].ret = 0 - 1
    /\ H1[2].op = "add_variable_to_server"
    /\ H1[2].arg.s1 = NameTime
    /\ H1[2].ret = 0
    /\ wire[1] = Line(H1[2])

\* C18: every call of clear, whatever was called before it, hands the same
\* bytes trick.var_clear() plus newline to the transport, and it changes
\* nothing but the stream it writes to.
C18_ClearIsPure ==
    /\ [](\A i \in DOMAIN H1 :
            H1[i].op = "clear" => H1[i].sent = <<clear_command \o NL>>)
    /\ [][(Returns /\ Last.op = "clear") =>
              /\ sock' = sock
              /\ inbox' = inbox
              /\ peer' = peer
              /\ reply' = reply
              /\ wire'[1] = wire[1] \o Taken(clear_command \o NL, Last.acc[1])]_vars

\* clear called twice in a row, both writes complete
C18_Witness ==
    /\ pc = "idle"
    /\ Len(H1) = 2
    /\ H1[1].op = "clear"
    /\ H1[2].op = "clear"
    /\ H1[1].ret = 0
    /\ H1[2].ret = 0
    /\ wire[1] = clear_command \o NL \o clear_command \o NL

\* a call of a wrapper (any command operation but raw-send) has returned
WrapperReturned == Returned /\ op # "send_command_to_variable_server"

\* the last send of the call reported an error
SendFailed == acc # <<>> /\ acc[Len(acc)] < 0

\* C16: a wrapper returns only 0 or -1: -1 exactly when the command was
\* rejected for its length or send reported an error, and 0 only when the
\* whole command line was sent; no failure is reported as success.
C16_WrapperReportsFailures ==
    WrapperReturned =>
        /\ ret \in {0, 0 - 1}
        /\ (ret = 0 - 1) <=> (sent = <<>> \/ SendFailed)
        /\ (ret = 0) => (Len(sent) = 1 /\ acc = <<Len(sent[1])>>)

\* C17: validate-addresses hands trick.var_validate_address(True) plus
\* newline to the transport exactly when validate > 0 and
\* trick.var_validate_address(False) plus newline for 0 and negative values.
C17_ValidateToken ==
    (pc = "idle" /\ op = "set_validate_addresses") =>
        sent = <<validate_prefix
                    \o (IF arg.i > 0 THEN TrueText ELSE FalseText)
                    \o paren_suffix \o NL>>

\* a negative validate was written as False, in full
C17_Witness ==
    /\ pc = "idle"
    /\ op = "set_validate_addresses"
    /\ arg.i < 0
    /\ sent = <<validate_prefix \o FalseText \o paren_suffix \o NL>>
    /\ acc = <<Len(sent[1])>>
    /\ ret = 0

(***************************************************************************)
(* The character arrays of one call: what each strncpy, strncat and        *)
(* snprintf writes, and whether the array holds a NUL when strlen or       *)
(* strncat reads it.  ok is false once a write passed the end of its array *)
(* or an unterminated array was read.                                      *)
(***************************************************************************)
\* "char cmd[size];", not yet written
NewBuf(size) == [size |-> size, text |-> <<>>, term |-> FALSE, ok |-> TRUE]

\* a string literal or a string of the caller
StrBuf(text) == [size |-> Len(text) + 1, text |-> text, term |-> TRUE, ok |-> TRUE]

\* strncpy(b, src, n) writes exactly n bytes and leaves a NUL only if src is
\* shorter than n
BufStrncpy(b, src, n) ==
    [b EXCEPT !.text = Strncpy(src, n),
              !.term = Strlen(src) < n,
              !.ok = b.ok /\ n <= b.size]

\* strncat(b, src, sizeof(b) - strlen(b) - 1) reads b up to its NUL and
\* writes the characters taken from src and a NUL after them
BufStrncat(b, src) ==
    LET n == b.size - Strlen(b.text) - 1
        new == Strncat(b.text, src, n)
    IN  [b EXCEPT !.text = new,
                  !.term = TRUE,
                  !.ok = b.ok /\ b.term /\ Len(new) + 1 <= b.size]

\* snprintf(b, n, fmt, x) writes at most n bytes, the last one a NUL
BufSnprintf(b, text, n) ==
    [b EXCEPT !.text = Snprintf(text, n),
              !.term = n > 0,
              !.ok = b.ok /\ n <= b.size]

RECURSIVE BufConcat(_, _)
BufConcat(b, parts) ==
    IF parts = <<>> THEN b ELSE BufConcat(BufStrncat(b, Head(parts)), Tail(parts))

\* cmd of a wrapper after its strncpy and strncats
BuildLedger(size, parts) ==
    BufConcat(BufStrncpy(NewBuf(size), Head(parts), size), Tail(parts))

\* no array is written when a length check refuses the call
Refused == [NewBuf(BufSize) EXCEPT !.term = TRUE]

\* lines 124-135 called with the string held in c
SendLedger(c) ==
    IF ~(c.ok /\ c.term) THEN [c EXCEPT !.ok = FALSE]
    ELSE IF send_too_long(c.text) THEN Refused
    ELSE BufStrncat(BufStrncpy(NewBuf(BufSize), c.text, BufSize), NL)

\* the functions that pass a string straight to send_command_to_variable_server
Direct(o) ==
    o \in {"send_command_to_variable_server", "set_ascii", "set_binary",
           "set_binary_no_names", "set_sync", "pause", "unpause", "clear",
           "poll", "run", "freeze", "close"}

\* the array an argument is formatted into before the command is assembled
HelperBuf(o, a) ==
    CASE o = "set_cycle" -> BufSnprintf(NewBuf(PerSize), FormatLf(a.p), PerSize)
      [] o = "set_copy_mode" -> BufSnprintf(NewBuf(ModSize), FormatInt(a.i), ModSize)
      [] o = "set_debug_level" -> BufSnprintf(NewBuf(LevSize), FormatInt(a.i), LevSize)
      [] o = "set_validate_addresses" ->
            BufStrncpy(NewBuf(ValSize), IF a.i > 0 THEN TrueText ELSE FalseText, ValSize)
      [] o = "set_real_time" ->
            BufStrncpy(NewBuf(ValSize), IF a.i > 0 THEN EnableText ELSE DisableText, ValSize)
      [] OTHER -> StrBuf(a.s1)

BuiltSize(o) ==
    IF o \in {"set_validate_addresses", "set_real_time", "set_debug_level"}
    THEN SmallBufSize ELSE BufSize

\* prefix, arguments and suffix of each builder, h the formatted argument
BuiltParts(o, a, h) ==
    CASE o = "add_variable_to_server" -> <<add_variable_prefix, h, add_variable_suffix>>
      [] o = "add_variable_to_sever_with_units" ->
            <<add_variable_prefix, h, with_units_infix, a.s2, add_variable_suffix>>
      [] o = "remove_variable_from_server" ->
            <<remove_variable_prefix, h, add_variable_suffix>>
      [] o = "set_cycle" -> <<set_cycle_prefix, h, paren_suffix>>
      [] o = "set_copy_mode" -> <<set_copy_mode_prefix, h, paren_suffix>>
      [] o = "set_validate_addresses" -> <<validate_prefix, h, paren_suffix>>
      [] o = "set_real_time" -> <<real_time_prefix, h, real_time_suffix>>
      [] o = "set_debug_level" -> <<debug_prefix, h, paren_suffix>>
      [] o = "set_client_tag" -> <<client_tag_prefix, h, add_variable_suffix>>

\* the array whose bytes the call hands to send, after all its writes
CallLedger(o, a) ==
    IF Direct(o) THEN SendLedger(StrBuf(Template(o, a)))
    ELSE LET h == HelperBuf(o, a)
             parts == BuiltParts(o, a, h.text)
         IN  IF ~(h.ok /\ h.term) THEN [h EXCEPT !.ok = FALSE]
             ELSE IF build_too_long(BuiltSize(o), parts) THEN Refused
             ELSE SendLedger(BuildLedger(BuiltSize(o), parts))

\* C20: in every command operation every write of the assembly stays inside
\* its array (512 bytes, 256 for validate-addresses, real-time and
\* debug-level), the array holds a NUL whenever strlen or strncat reads it,
\* and at most 511 bytes are handed to send.
C20_BufferSafety ==
    Returned =>
        LET L == CallLedger(op, arg)
        IN  /\ L.ok
            /\ L.term
            /\ (sent = <<>>) <=> (L.text = <<>>)
            /\ \A i \in DOMAIN sent : sent[i] = L.text /\ Len(sent[i]) <= BufSize - 1

\* the longest line that passes both checks filled cmd[512] to its last byte
C20_Witness ==
    /\ pc = "idle"
    /\ op = "add_variable_to_sever_with_units"
    /\ arg.s2 # <<>>
    /\ sent # <<>>
    /\ Len(sent[1]) = BufSize - 1
    /\ CallLedger(op, arg).ok

\* C19: a call of close returns after a bounded number of steps on every
\* transport: it never opens a second frame of itself after a successful
\* send, and it never ends without returning.
C19_CloseTerminates ==
    /\ pc # "crashed"
    /\ depth <= 1

(***************************************************************************)
(* Two callers, each on its own descriptor (caller t uses descriptor t),   *)
(* running calls step by step: the builder fills its cmd, then             *)
(* send_command_to_variable_server fills its own cmd, then send() is       *)
(* given that array.  The steps of the two callers interleave freely.      *)
(***************************************************************************)
TwoCalls ==
    {[op |-> "send_command_to_variable_server", arg |-> [NoArg EXCEPT !.s1 = <<"a">>]],
     [op |-> "clear", arg |-> NoArg],
     [op |-> "add_variable_to_server", arg |-> [NoArg EXCEPT !.s1 = NameTime]],
     [op |-> "add_variable_to_server",
      arg |-> [NoArg EXCEPT !.s1 = Fill(Fit(Strlen(add_variable_prefix)
                                             + Strlen(add_variable_suffix)) + 1)]]}

\* one array for every caller, as "static char cmd[512];" would give
cmd_owner_static(t) == 1

\* lines 125 and 279: cmd is an automatic array, one per call in progress
cmd_owner(t) == t

\* a call of caller t returns r, having handed the buffers s to send
TwoReturn(t, r, s, a) ==
    /\ thr' = [thr EXCEPT ![t] = [@ EXCEPT !.pc = "idle"]]
    /\ hist' = [hist EXCEPT ![t] =
                  Append(@, [op |-> thr[t].op, arg |-> thr[t].arg, ret |-> r,
                             sent |-> s, acc |-> a])]

\* caller t enters a function; a builder checks the length and assembles
\* its command in its cmd
two_call(t) ==
    \E c \in TwoCalls :
        /\ thr[t].pc = "idle"
        /\ Len(hist[t]) < MaxTwoCalls
        /\ IF Direct(c.op)
           THEN /\ thr' = [thr EXCEPT ![t] = [pc |-> "send_command", op |-> c.op, arg |-> c.arg]]
                /\ UNCHANGED <<hist, cmdbuf>>
           ELSE LET parts == BuiltParts(c.op, c.arg, c.arg.s1)
                IN  IF build_too_long(BuiltSize(c.op), parts)
                    THEN /\ thr' = [thr EXCEPT ![t] = [pc |-> "idle", op |-> c.op, arg |-> c.arg]]
                         /\ hist' = [hist EXCEPT ![t] =
                                       Append(@, [op |-> c.op, arg |-> c.arg, ret |-> 0 - 1,
                                                  sent |-> <<>>, acc |-> <<>>])]
                         /\ UNCHANGED cmdbuf
                    ELSE /\ thr' = [thr EXCEPT ![t] = [pc |-> "send_command", op |-> c.op, arg |-> c.arg]]
                         /\ cmdbuf' = [cmdbuf EXCEPT ![cmd_owner(t)] =
                                          [@ EXCEPT !.w = build_command(BuiltSize(c.op), parts)]]
                         /\ UNCHANGED hist
        /\ UNCHANGED <<call, inbox, peer, reply, wire, demo>>

\* lines 127-132: the length check, then strncpy and strncat into cmd
two_copy(t) ==
    /\ thr[t].pc = "send_command"
    /\ LET command == IF Direct(thr[t].op) THEN Template(thr[t].op, thr[t].arg)
                      ELSE cmdbuf[cmd_owner(t)].w
       IN  IF send_too_long(command)
           THEN /\ TwoReturn(t, 0 - 1, <<>>, <<>>)
                /\ UNCHANGED cmdbuf
           ELSE /\ thr' = [thr EXCEPT ![t] = [@ EXCEPT !.pc = "send"]]
                /\ cmdbuf' = [cmdbuf EXCEPT ![cmd_owner(t)] =
                                 [@ EXCEPT !.s = send_buffer(command)]]
                /\ UNCHANGED hist
    /\ UNCHANGED <<call, inbox, peer, reply, wire, demo>>

\* line 133: send(socket, cmd, strlen(cmd), 0) by caller t on descriptor h
thread_send(t, h) ==
    LET buf == cmdbuf[cmd_owner(t)].s
    IN  \E r \in SendResults(sock, Strlen(buf)) :
           /\ wire' = [wire EXCEPT ![h] = @ \o Taken(buf, r)]
           /\ TwoReturn(t, IF thr[t].op = "send_command_to_variable_server"
                           THEN raw_return(r) ELSE wrapper_return(r),
                        <<buf>>, <<r>>)

\* the send of caller t, whose descriptor is t
two_send(t) ==
    /\ thr[t].pc = "send"
    /\ thread_send(t, t)
    /\ UNCHANGED <<call, inbox, peer, reply, cmdbuf, demo>>

TwoNext ==
    \E t \in Threads : two_call(t) \/ two_copy(t) \/ two_send(t)

SpecTwo == Init /\ [][TwoNext]_vars

\* what descriptor h's stream holds when only the calls recorded in h are
\* made: of each line, the bytes its send took
RECURSIVE OwnStream(_)
OwnStream(h) ==
    IF h = <<>> THEN <<>>
    ELSE (IF Head(h).acc = <<>> THEN <<>> ELSE Taken(Line(Head(h)), Head(h).acc[1]))
            \o OwnStream(Tail(h))

\* C13: with two callers running calls concurrently on two descriptors,
\* under every interleaving every buffer handed to send on a descriptor is
\* the command line of a call issued on that descriptor and the descriptor's
\* stream is the one its own calls alone would give.
C13_NoSharedState ==
    \A t \in Threads :
        /\ \A i \in DOMAIN hist[t] :
              hist[t][i].sent = <<>> \/ hist[t][i].sent = <<Line(hist[t][i])>>
        /\ wire[t] = OwnStream(hist[t])

\* both callers are inside send_command_to_variable_server at once, each
\* about to send a different line
C13_Witness ==
    /\ thr[1].pc = "send"
    /\ thr[2].pc = "send"
    /\ thr[1].op = "clear"
    /\ thr[2].op = "add_variable_to_server"
    /\ cmdbuf[1].s = clear_command \o NL
    /\ cmdbuf[2].s = add_variable_prefix \o NameTime \o add_variable_suffix \o NL

(***************************************************************************)
(* The demonstration programs test01_set_one_reading.c (prog 1) and        *)
(* test02_set_multiple_readings.c (prog 2): main, one action per library   *)
(* call and per puts(server_reply), with the server sending and shutting   *)
(* down at any time.  server_reply[2000] is the model's reply buffer, of   *)
(* MaxReply bytes.                                                         *)
(***************************************************************************)
\* lines 80-132 of both programs: the seven calls in program order
DemoCommands ==
    <<[op |-> "set_cycle", arg |-> [NoArg EXCEPT !.p = [kind |-> "micro", v |-> 500000]]],
      [op |-> "set_copy_mode", arg |-> [NoArg EXCEPT !.i = 1]],
      [op |-> "add_variable_to_server", arg |-> [NoArg EXCEPT !.s1 = NameTime]],
      [op |-> "add_variable_to_server", arg |-> [NoArg EXCEPT !.s1 = NamePos0]],
      [op |-> "add_variable_to_server", arg |-> [NoArg EXCEPT !.s1 = NamePos1]],
      [op |-> "add_variable_to_server", arg |-> [NoArg EXCEPT !.s1 = NamePos2]],
      [op |-> "add_variable_to_server", arg |-> [NoArg EXCEPT !.s1 = NameG]]>>

\* sizeof server_reply, the length both programs pass to receive
DemoReplySize == MaxReply

\* a failure taken for a positive result
command_failed_positive(r) == r > 0

\* "if (set_cycle(socket_desc, period) < 0)" and the like, lines 72-132
command_failed(r) == r < 0

\* the loop and the test of test01 both go on for a positive count only
receive_failed(r) == r <= 0

\* "return 1" after a failed call
DemoExit(d, status) == [d EXCEPT !.pc = "exited", !.status = status]

DemoLog(d, o, a, r) == [d EXCEPT !.log = Append(@, [op |-> o, arg |-> a, ret |-> r])]

\* lines 66-75: the socket is created and connected; a failed connect ends
\* the program with status 1
demo_connect ==
    \E g \in {1, 2} : \E r \in {0, 0 - 1} :
        /\ demo.pc = "start"
        /\ pc = "idle"
        /\ sock' = IF r < 0 THEN "unconnected" ELSE sock
        /\ LET d == DemoLog([demo EXCEPT !.prog = g],
                            "connect_to_variable_server", NoArg, r)
           IN  demo' = IF command_failed(r) THEN DemoExit(d, 1)
                       ELSE [d EXCEPT !.pc = "command", !.step = 1]
        /\ UNCHANGED <<pc, op, arg, ret, sent, acc, depth>>
        /\ UNCHANGED <<inbox, peer, reply, wire, hist, thr, cmdbuf>>

\* lines 80-137: the next of the seven calls; a negative result ends the
\* program with status 1
demo_command ==
    /\ demo.pc = "command"
    /\ pc = "idle"
    /\ Perform(DemoCommands[demo.step])
    /\ LET d == DemoLog(demo, op', arg', ret')
       IN  demo' = IF command_failed(ret') THEN DemoExit(d, 1)
                   ELSE IF demo.step = Len(DemoCommands)
                        THEN [d EXCEPT !.pc = "receive"]
                        ELSE [d EXCEPT !.step = @ + 1]
    /\ UNCHANGED <<inbox, peer, reply, wire, hist, thr, cmdbuf>>

\* the calls of receive made so far
Receives(d) == Len(d.log) - Len(DemoCommands) - 1

\* test01 line 140, test02 line 143: one call of receive into server_reply;
\* on a result <= 0 test01 returns 1 and test02 leaves its loop and returns 0
demo_receive ==
    /\ demo.pc = "receive"
    /\ pc = "idle"
    /\ Receives(demo) < MaxReceives
    /\ receive_call(DemoReplySize)
    /\ LET d == DemoLog(demo, op', arg', ret')
       IN  demo' = IF receive_failed(ret')
                   THEN DemoExit(d, IF demo.prog = 1 THEN 1 ELSE 0)
                   ELSE [d EXCEPT !.pc = "print"]
    /\ UNCHANGED <<pc, sock, depth, peer, wire, hist, thr, cmdbuf>>

\* the first j positions of a buffer as a string
Cells(buf, j) == [i \in 1..j |-> buf[i]]

\* what is read beyond the last position of the array
Beyond == "!"

\* puts(buf) prints from the first position up to the first NUL.  Received
\* bytes are not NUL; a position never stored in is indeterminate and reads
\* as NUL or as some other byte.  over: no NUL was read inside the array and
\* the read went on past its end.
PutsOutcomes(buf) ==
    LET n == Len(buf)
    IN  {[text |-> Cells(buf, j), over |-> FALSE] :
            j \in {k \in 0..(n - 1) : buf[k + 1] = Unset}}
          \cup {[text |-> Append(Cells(buf, n), Beyond), over |-> TRUE]}

\* test01 line 146, test02 line 149: puts(server_reply).  Reading past the
\* end of the array is undefined: the program prints what lies there or is
\* killed.  test01 then returns 0, test02 goes round its loop.
demo_print ==
    \E o \in PutsOutcomes(reply) : \E killed \in BOOLEAN :
        /\ demo.pc = "print"
        /\ killed => o.over
        /\ demo' = IF killed THEN [demo EXCEPT !.pc = "killed", !.printed = Cells(reply, Len(reply))]
                   ELSE IF demo.prog = 1
                        THEN DemoExit([demo EXCEPT !.printed = o.text], 0)
                        ELSE [demo EXCEPT !.pc = "receive", !.printed = o.text]
        /\ UNCHANGED <<call, inbox, peer, reply, wire, hist, thr, cmdbuf>>

DemoNext ==
    \/ demo_connect
    \/ demo_command
    \/ demo_receive
    \/ demo_print
    \/ server_sends
    \/ server_shutdown

SpecDemo == Init /\ [][DemoNext]_vars

\* the calls a run of either program makes, in order: connect, the seven
\* commands, then receive
DemoOrder(i) ==
    IF i = 1 THEN [op |-> "connect_to_variable_server", arg |-> NoArg]
    ELSE IF i <= Len(DemoCommands) + 1 THEN DemoCommands[i - 1]
    ELSE [op |-> RecvOp, arg |-> [NoArg EXCEPT !.i = DemoReplySize]]

\* the positions of the log that are calls of receive
DemoReceives == {i \in DOMAIN demo.log : i > Len(DemoCommands) + 1}

DemoLast == demo.log[Len(demo.log)]

\* C21: both programs call connect, set_cycle, set_copy_mode and
\* add_variable for time, dyn.baseball.pos[0], pos[1], pos[2],
\* dyn.baseball.g in that order; receive is called only after all seven
\* commands returned success, and once connect or a command has failed the
\* program has exited with status 1 and makes no further call.
C21_DemoOrder ==
    /\ \A i \in DOMAIN demo.log :
          /\ demo.log[i].op = DemoOrder(i).op
          /\ demo.log[i].arg = DemoOrder(i).arg
          /\ (i < Len(demo.log) /\ i \notin DemoReceives) => demo.log[i].ret = 0
    /\ (demo.log # <<>> /\ DemoReceives = {} /\ DemoLast.ret < 0) =>
          (demo.pc = "exited" /\ demo.status = 1)
    /\ (demo.pc = "exited" /\ DemoReceives = {}) => DemoLast.ret < 0

\* the five variables were added and the first receive has been made
C21_Witness ==
    /\ demo.prog = 2
    /\ Len(demo.log) = Len(DemoCommands) + 2
    /\ demo.log[Len(DemoCommands) + 1].op = "add_variable_to_server"
    /\ demo.log[Len(DemoCommands) + 1].arg.s1 = NameG
    /\ demo.log[Len(DemoCommands) + 1].ret = 0
    /\ DemoLast.op = RecvOp
    /\ DemoLast.ret > 0

\* C22: the loop of test02 calls receive again after every positive result
\* and its reading, leaves at the first result that is 0 or negative (0
\* only once the peer has shut down) and then exits with status 0, calling
\* receive no more.
C22_DrainLoop ==
    demo.prog = 2 =>
        /\ \A i \in DemoReceives : i < Len(demo.log) => demo.log[i].ret > 0
        /\ demo.pc # "killed"
        /\ (DemoReceives # {} /\ DemoLast.ret <= 0) =>
              /\ demo.pc = "exited"
              /\ demo.status = 0
              /\ (DemoLast.ret = 0) => (peer = "shutdown")
        /\ (DemoReceives # {} /\ demo.pc = "exited") => DemoLast.ret <= 0

\* the reply of the last receive has been printed
DemoPrinted ==
    /\ DemoReceives # {}
    /\ DemoLast.ret > 0
    /\ demo.pc # "print"

\* C23: after a receive that returned k > 0 bytes, what the program prints
\* as the reply is exactly those k bytes: nothing left in the buffer from
\* before, nothing from beyond its end, and the program is not killed.
C23_PrintsReceivedBytes ==
    DemoPrinted =>
        /\ demo.pc # "killed"
        /\ demo.printed = Cells(reply, DemoLast.ret)

(***************************************************************************)
(* Two callers using the same descriptor, 1, without synchronisation: the  *)
(* steps of their calls interleave as before and both send on it.          *)
(***************************************************************************)
shared_send(t) ==
    /\ thr[t].pc = "send"
    /\ thread_send(t, 1)
    /\ UNCHANGED <<call, inbox, peer, reply, cmdbuf, demo>>

SharedNext ==
    \E t \in Threads : two_call(t) \/ two_copy(t) \/ shared_send(t)

SpecShared == Init /\ [][SharedNext]_vars

\* the command lines the two callers issue
SharedLines == {Line(c) : c \in TwoCalls}

\* w is a sequence of whole command lines
RECURSIVE WholeLines(_)
WholeLines(w) ==
    \/ w = <<>>
    \/ \E l \in SharedLines :
          /\ Len(l) <= Len(w)
          /\ SubSeq(w, 1, Len(l)) = l
          /\ WholeLines(SubSeq(w, Len(l) + 1, Len(w)))

\* C24: with two callers sending on the same descriptor concurrently, under
\* every interleaving the server's stream is a sequence of whole command
\* lines: no line is cut short or has bytes of another line inside it.
C24_WholeLinesOnSharedHandle == WholeLines(wire[1])

====
